---- MODULE Spec2Model ----
(***************************************************************************)
(* Expense tracker (HW01_4.py): a table is loaded from a CSV/JSON file,    *)
(* split into complete and incomplete rows, filtered by a date range,      *)
(* summed per category, and incomplete rows are edited cell by cell with   *)
(* every edit written back to the file.                                    *)
(*                                                                         *)
(* Abstractions.  A cell is a tagged value: NA (NaN/NaT/None, an empty CSV *)
(* field), Str(s) (text), Num(n) (a number), Date(d) (a timestamp, as a    *)
(* day number).  Numeric and date text is identified with the value it     *)
(* denotes ("5" and "5.0" are the same cell), amounts are integers, and    *)
(* time-of-day is not modelled.  A table is a sequence of rows, a row is   *)
(* [idx |-> its pandas index label, cells |-> column -> value].            *)
(***************************************************************************)
EXTENDS Integers, Sequences, FiniteSets, TLC

\* ------------------------------------------------------------------ bounds
\* Rows of the file in the program specification.
MaxRows == 2
\* Accepted editor edits in one run.
MaxEdits == 2
\* Rows of the table in the validation specification.
MaxRowsV == 2
\* Rows of the table in the filter/aggregate specification.
MaxRowsF == 3

\* ------------------------------------------------------------------ values
NA == [t |-> "na"]
Str(s) == [t |-> "str", s |-> s]
Num(n) == [t |-> "num", n |-> n]
Date(d) == [t |-> "date", d |-> d]

\* df.isnull(): NaN, NaT and None are null; every string (also "") is not.
isnull(v) == v.t = "na"

\* The columns of the file: the three key columns and one passthrough column.
Cols == {"Date", "Category", "Amount", "Note"}

\* Text the date parser accepts, with the day it denotes (day 1 = 2024-01-01).
DayOf ==
  ("2024-01-01" :> 1) @@ ("2024-01-08" :> 8) @@ ("2024-01-09" :> 9) @@
  ("2024-01-31" :> 31) @@ ("2024-02-01" :> 32) @@ ("2024-02-05" :> 36) @@
  ("2024-02-08" :> 39)

\* Text the number parser accepts, with its value.
NumOf == ("5" :> 5) @@ ("10" :> 10) @@ ("20" :> 20)

\* A to_datetime that parses text only: an already parsed timestamp is lost.
to_datetime_coerce_textonly(v) ==
  IF v.t = "str" /\ v.s \in DOMAIN DayOf THEN Date(DayOf[v.s]) ELSE NA

\* pd.to_datetime(x, errors='coerce') on one cell: a timestamp stays, date
\* text is parsed, everything else becomes NaT.
to_datetime_coerce(v) ==
  IF v.t = "date" THEN v
  ELSE IF v.t = "str" /\ v.s \in DOMAIN DayOf THEN Date(DayOf[v.s])
  ELSE NA

\* pd.to_numeric(x, errors='coerce') on one cell.
to_numeric_coerce(v) ==
  IF v.t = "num" THEN v
  ELSE IF v.t = "str" /\ v.s \in DOMAIN NumOf THEN Num(NumOf[v.s])
  ELSE NA

\* ------------------------------------------------------------------ tables
RowsOf(t) == 1..Len(t)

\* DataFrame.reset_index(drop=True): labels become 0..k-1.
reset_index(t) == [i \in RowsOf(t) |-> [idx |-> i - 1, cells |-> t[i].cells]]

\* pd.read_csv / pd.read_json: the file's rows, labelled 0..n-1.
read_file(f) == [i \in 1..Len(f) |-> [idx |-> i - 1, cells |-> f[i]]]

\* df.to_csv(index=False) / df.to_json(orient='columns'): the rows in order,
\* without the index labels.
write_file(t) == [i \in RowsOf(t) |-> t[i].cells]

\* The cells of a row after column col is set to v; a column the row does not
\* have is added (setting with enlargement).
SetCells(cells, col, v) ==
  [c \in (DOMAIN cells) \cup {col} |-> IF c = col THEN v ELSE cells[c]]

\* A column added to a table is NaN in the rows that are not written.
PadCells(cells, col) ==
  [c \in (DOMAIN cells) \cup {col} |-> IF c \in DOMAIN cells THEN cells[c] ELSE NA]

\* Position (1-based) of the row labelled lbl, 0 when there is none.
PosOfLabel(t, lbl) ==
  IF \E i \in RowsOf(t) : t[i].idx = lbl
  THEN CHOOSE i \in RowsOf(t) : t[i].idx = lbl
  ELSE 0

\* t.loc[lbl, col] = v  /  t.at[lbl, col] = v   (label based).
SetByLabel(t, lbl, col, v) ==
  IF PosOfLabel(t, lbl) # 0
  THEN [i \in RowsOf(t) |->
          [idx |-> t[i].idx,
           cells |-> IF i = PosOfLabel(t, lbl) THEN SetCells(t[i].cells, col, v)
                     ELSE PadCells(t[i].cells, col)]]
  ELSE Append([i \in RowsOf(t) |-> [idx |-> t[i].idx, cells |-> PadCells(t[i].cells, col)]],
              [idx |-> lbl,
               cells |-> [c \in Cols \cup {col} |-> IF c = col THEN v ELSE NA]])

\* ------------------------------------------------------- validate_and_clean
\* Lines 16-17: the Date and Amount columns are replaced by their coercion.
Coerce(t) ==
  [i \in RowsOf(t) |->
     [idx |-> t[i].idx,
      cells |-> [t[i].cells EXCEPT !.Date = to_datetime_coerce(@),
                                   !.Amount = to_numeric_coerce(@)]]]

\* A dropna whose subset leaves Category out.
KeyFieldsPresentNoCategory(r) ==
  ~isnull(r.cells.Date) /\ ~isnull(r.cells.Amount)

\* Line 18: dropna(subset=['Date', 'Category', 'Amount']) keeps the rows (with
\* their labels, in order) whose three key cells are all non-null.
KeyFieldsPresent(r) ==
  ~isnull(r.cells.Date) /\ ~isnull(r.cells.Category) /\ ~isnull(r.cells.Amount)

\* Line 19: df.isnull().any(axis=1), the mask of the rows with a null cell in
\* any column; the selection keeps labels and order.
AnyNull(r) == \E c \in DOMAIN r.cells : isnull(r.cells[c])

\* The labels of the rows selected into incomplete_df, before the reset.
IncompleteLabels(t) ==
  LET sel == SelectSeq(Coerce(t), AnyNull) IN [j \in RowsOf(sel) |-> sel[j].idx]

validate_and_clean_data(t) ==
  [df |-> Coerce(t),
   complete_df |-> SelectSeq(Coerce(t), KeyFieldsPresent),
   incomplete_df |-> reset_index(SelectSeq(Coerce(t), AnyNull))]


\* ----------------------------------------------------------- filter_by_date
\* pd.to_datetime(x) with the default errors='raise' succeeds on x.
DateParses(x) == x.t = "date" \/ (x.t = "str" /\ x.s \in DOMAIN DayOf)

\* Its result, a day number, when it succeeds.
to_datetime(x) == IF x.t = "date" THEN x.d ELSE DayOf[x.s]

\* A mask with an exclusive upper bound.
InRangeExclusiveEnd(r, start_date, end_date) ==
  /\ r.cells.Date.t = "date"
  /\ r.cells.Date.d >= to_datetime(start_date)
  /\ r.cells.Date.d < to_datetime(end_date)

\* Line 24: Date >= start and Date <= end; a comparison with NaT is False.
InRange(r, start_date, end_date) ==
  /\ r.cells.Date.t = "date"
  /\ r.cells.Date.d >= to_datetime(start_date)
  /\ r.cells.Date.d <= to_datetime(end_date)

filter_by_date(t, start_date, end_date) ==
  LET mask(r) == InRange(r, start_date, end_date) IN SelectSeq(t, mask)

\* ---------------------------------------------------------------- summary
\* Series.sum(): the sum of the non-null numbers of column Amount, in row order.
RECURSIVE SumAmount(_)
SumAmount(t) ==
  IF t = <<>> THEN 0
  ELSE (IF Head(t).cells.Amount.t = "num" THEN Head(t).cells.Amount.n ELSE 0)
       + SumAmount(Tail(t))

\* The group keys of groupby('Category'): the non-null categories present.
GroupKeys(t) == {t[i].cells.Category : i \in RowsOf(t)} \ {NA}

\* A grouping that keeps each group's last amount instead of its sum.
GroupLast(t) ==
  [c \in GroupKeys(t) |->
     LET member(r) == r.cells.Category = c
         g == SelectSeq(t, member)
     IN  IF g[Len(g)].cells.Amount.t = "num" THEN g[Len(g)].cells.Amount.n ELSE 0]

\* Line 125: groupby('Category')['Amount'].sum().
GroupSum(t) ==
  [c \in GroupKeys(t) |->
     LET member(r) == r.cells.Category = c IN SumAmount(SelectSeq(t, member))]

\* Line 45: summary.sum(), the grand total that is printed.
RECURSIVE SumOver(_, _)
SumOver(f, keys) ==
  IF keys = {} THEN 0
  ELSE LET k == CHOOSE x \in keys : TRUE IN f[k] + SumOver(f, keys \ {k})

GrandTotal(s) == SumOver(s, DOMAIN s)

\* ------------------------------------------------------------------ editor
\* Row text the editor is given: the integers -1..MaxRows+1 and a non-integer.
IntRange == (0 - 1)..(MaxRows + 1)
IsIntText(tok) == \E n \in IntRange : ToString(n) = tok

\* Line 67: int(row.strip()).
ParseInt(tok) == CHOOSE n \in IntRange : ToString(n) = tok

\* incomplete_df.columns
ColumnsOf(t) == IF t = <<>> THEN Cols ELSE DOMAIN t[1].cells

\* incomplete_df.index
IndexOf(t) == {t[i].idx : i \in RowsOf(t)}

\* A check that lets the row one past the end through.
ValidSelectionOffByOne(t, column, row) ==
  column \in ColumnsOf(t) /\ row \in 0..Len(t)

\* A check of the row alone.
ValidSelectionRowOnly(t, column, row) == row \in IndexOf(t)

\* Line 69, negated: the column is a column and the row is in the index.
ValidSelection(t, column, row) ==
  column \in ColumnsOf(t) /\ row \in IndexOf(t)

\* Whether column col of t is a datetime64 column: Date after coercion, as
\* long as no text that is not a date was written into it.
IsDatetimeColumn(t, col) ==
  col = "Date" /\ \A i \in RowsOf(t) : t[i].cells[col].t \in {"date", "na"}

\* The value a cell of column col of t holds after v is assigned to it: a
\* datetime64 column parses date text into a timestamp, any other column (and
\* any other text) is stored as the text entered.
StoredValue(t, col, v) ==
  IF col \in ColumnsOf(t) /\ IsDatetimeColumn(t, col) /\ v \in DOMAIN DayOf
  THEN Date(DayOf[v])
  ELSE Str(v)

\* Line 77: incomplete_df.at[row, column] = new_value.
EditInMemory(t, row, column, v) == SetByLabel(t, row, column, StoredValue(t, column, v))

\* Line 81 raises IndexError when row is not a position of the file's table.
PositionExists(f, row) == row + 1 \in 1..Len(f)

\* A write addressed by the row's position in the coerced table it came from.
EditFileAtSource(f, row, column, v, labels) ==
  write_file(SetByLabel(read_file(f), labels[row + 1], column, Str(v)))

\* Lines 80-85: the file is read again, the row at POSITION row is written,
\* and the whole file is rewritten.  labels (the file positions the
\* incomplete rows came from) is not available to the code and is not used.
EditFile(f, row, column, v, labels) ==
  LET fdf == read_file(f)
  IN  write_file(SetByLabel(fdf, fdf[row + 1].idx, column, Str(v)))

\* ------------------------------------------------------------------- state
\* Both supported formats are read into the same table, so the path is not
\* kept after the load: only the extension typed decides anything.
VARIABLES
  pc,             \* the prompt the program waits at: file, range, next, editor, exit
  file,           \* the rows of the file on disk
  df,             \* expense_tracker's table
  complete_df,
  incomplete_df,
  filtered_df,
  summary,
  edits,          \* accepted edits so far (bounded by MaxEdits)
  lastIn,         \* history: the last input read, [prompt, parts, value]
  labels,         \* history: the df labels of incomplete_df's rows, before the reset
  first           \* history: the file at load and the results of the first validation

vars == <<pc, file, df, complete_df, incomplete_df, filtered_df,
          summary, edits, lastIn, labels, first>>

\* An input: the prompt it was typed at, its parts (a command split at the
\* commas), and the text typed at the prompt for the new value, if it came.
Input(prompt, parts, value) == [prompt |-> prompt, parts |-> parts, value |-> value]
NoInput == Input("none", <<>>, <<>>)
NoFirst == [file |-> <<>>, df |-> <<>>, complete_df |-> <<>>, incomplete_df |-> <<>>]

Tables(rows, n) == UNION {[1..k -> rows] : k \in 0..n}

\* Rows of the files of the program specification: a complete row, a row
\* with no date and an amount that is not a number, and a row whose key
\* fields are present and whose passthrough cell is empty.
ProgRows ==
  {[Date |-> Str("2024-02-05"), Category |-> Str("Food"), Amount |-> Str("5"), Note |-> Str("n")],
   [Date |-> NA, Category |-> Str("Food"), Amount |-> Str("abc"), Note |-> Str("n")],
   [Date |-> Str("2024-02-05"), Category |-> Str("Food"), Amount |-> Str("10"), Note |-> NA]}

\* Rows of the tables of the validation specification.
ValRows ==
  [Date : {NA, Str("soon"), Str("2024-01-01")}, Category : {NA, Str("Food")},
   Amount : {NA, Str("abc"), Str("5")}, Note : {NA, Str("n")}]

\* Rows of the tables of the filter specification.
FilterRows ==
  [Date : {Str("2024-01-01"), Str("2024-01-08"), Str("2024-01-31")},
   Category : {Str("Food"), Str("Travel")}, Amount : {Str("5"), Str("10")},
   Note : {Str("n")}]

Extensions == {".csv", ".json", ".txt"}
RangeChoices == {"1", "2", "3", "0"}
DateInputs == {"2024-02-05", "soon"}
FilterDateInputs == {"2024-01-01", "2024-01-08", "2024-01-31", "soon"}
NextChoices == {"1", "2", "q", "Q", "0"}
\* Editor commands, split at the commas and stripped: q, commands that may
\* select a cell, and commands that cannot (one part, three parts, a row that
\* is no integer, a negative row, the row one past the last possible one, a
\* column that does not exist).
QuitInputs == {<<"q">>, <<"Q">>}
CellInputs == {<<c, ToString(n)>> : c \in Cols, n \in 0..(MaxRows - 1)}
BadInputs ==
  {<<"0">>, <<"Amount", "0", "0">>, <<"Amount", "one">>, <<"Amount", "-1">>,
   <<"Amount", ToString(MaxRows)>>, <<"Total", "0">>}
NewValues == {"2024-01-09"}

\* pd.Timestamp.today(), as a day number (2024-02-08).
Todays == {39}
\* pd.Timedelta(weeks=1) in days.
WeekDays == 7
\* end_date - pd.DateOffset(months=1): the same day of the previous month.
MonthBefore(d) == CASE d = 39 -> 8

InitWith(files) ==
  /\ pc = "file"
  /\ file \in files
  /\ df = <<>>
  /\ complete_df = <<>>
  /\ incomplete_df = <<>>
  /\ filtered_df = <<>>
  /\ summary = <<>>
  /\ edits = 0
  /\ lastIn = NoInput
  /\ labels = <<>>
  /\ first = NoFirst

Init == InitWith(Tables(ProgRows, MaxRows))

\* A loop that reads the file again every time it goes round.
RevalidateReloaded ==
  LET r == validate_and_clean_data(read_file(file))
  IN  /\ df' = r.df
      /\ complete_df' = r.complete_df
      /\ incomplete_df' = r.incomplete_df
      /\ labels' = IncompleteLabels(read_file(file))

\* Line 102: validate_and_clean_data(df) at the top of the menu loop, on the
\* table loaded at line 95/97.
Revalidate ==
  LET r == validate_and_clean_data(df)
  IN  /\ df' = r.df
      /\ complete_df' = r.complete_df
      /\ incomplete_df' = r.incomplete_df
      /\ labels' = IncompleteLabels(df)

\* Lines 92-102: the path is read, the file is loaded (or the extension is
\* refused, which ends the run), and the table is validated.
Load ==
  /\ pc = "file"
  /\ \E ext \in Extensions :
       /\ lastIn' = Input("file", <<ext>>, <<>>)
       /\ IF ext \in {".json", ".csv"}
          THEN LET r == validate_and_clean_data(read_file(file))
               IN  /\ df' = r.df
                   /\ complete_df' = r.complete_df
                   /\ incomplete_df' = r.incomplete_df
                   /\ labels' = IncompleteLabels(read_file(file))
                   /\ first' = [file |-> file, df |-> r.df,
                                complete_df |-> r.complete_df,
                                incomplete_df |-> r.incomplete_df]
                   /\ pc' = "range"
          ELSE /\ pc' = "exit"
               /\ UNCHANGED <<df, complete_df, incomplete_df, labels, first>>
  /\ UNCHANGED <<file, filtered_df, summary, edits>>

\* Lines 110-122: whether the time-range input gets to the filter.
RangeAccepted(choice, s, e) ==
  \/ choice \in {"1", "2"}
  \/ choice = "3" /\ DateParses(Str(s)) /\ DateParses(Str(e))

\* Lines 108-132: the time range is chosen, the complete rows are filtered
\* and summed, and the results are shown.  A choice other than 1/2/3 and a
\* custom date that does not parse raise, which ends the run.
SelectRangeFrom(dates) ==
  /\ pc = "range"
  /\ \E choice \in RangeChoices, s \in dates, e \in dates, today \in Todays :
       LET parts == IF choice = "3" THEN <<choice, s, e>> ELSE <<choice>>
           start_date == CASE choice = "1" -> Date(today - WeekDays)
                           [] choice = "2" -> Date(MonthBefore(today))
                           [] OTHER -> Str(s)
           end_date == IF choice = "3" THEN Str(e) ELSE Date(today)
       IN  /\ lastIn' = Input("range", parts, <<>>)
           /\ IF RangeAccepted(choice, s, e)
              THEN /\ filtered_df' = filter_by_date(complete_df, start_date, end_date)
                   /\ summary' = GroupSum(filter_by_date(complete_df, start_date, end_date))
                   /\ pc' = "next"
              ELSE /\ pc' = "exit"
                   /\ UNCHANGED <<filtered_df, summary>>
  /\ UNCHANGED <<file, df, complete_df, incomplete_df, edits, labels, first>>

SelectRange == SelectRangeFrom(DateInputs)

\* A menu that asks again after a choice it does not know.
NextPcReprompt(next_choice) ==
  CASE next_choice = "1" -> "range"
    [] next_choice = "2" -> "editor"
    [] next_choice \in {"q", "Q"} -> "exit"
    [] OTHER -> "next"

\* Lines 134-143: where the post-summary choice leads.
NextPc(next_choice) ==
  CASE next_choice = "1" -> "range"
    [] next_choice = "2" -> "editor"
    [] OTHER -> "exit"

\* Lines 132-143 (and 102 when the loop goes round).
SelectNext ==
  /\ pc = "next"
  /\ \E next_choice \in NextChoices :
       /\ lastIn' = Input("next", <<next_choice>>, <<>>)
       /\ pc' = NextPc(next_choice)
       /\ IF next_choice = "1"
          THEN Revalidate
          ELSE UNCHANGED <<df, complete_df, incomplete_df, labels>>
  /\ UNCHANGED <<file, filtered_df, summary, edits, first>>

\* Lines 59-62 (and 102): q leaves the editor, and the menu loop goes round
\* and validates df again.
EditorQuit ==
  /\ pc = "editor"
  /\ \E parts \in QuitInputs : lastIn' = Input("editor", parts, <<>>)
  /\ pc' = "range"
  /\ Revalidate
  /\ UNCHANGED <<file, filtered_df, summary, edits, first>>

\* Whether lines 65-71 let the command through to the prompt for the value.
Selects(t, parts) ==
  /\ Len(parts) = 2
  /\ IsIntText(parts[2])
  /\ ValidSelection(t, parts[1], ParseInt(parts[2]))

\* Lines 64-71, 87-88: a command that does not unpack into two parts, whose
\* row is no integer, or that selects no cell is reported; the loop goes round.
EditorReject ==
  /\ pc = "editor"
  /\ \E parts \in CellInputs \cup BadInputs :
       /\ ~Selects(incomplete_df, parts)
       /\ lastIn' = Input("editor", parts, <<>>)
  /\ UNCHANGED <<pc, file, df, complete_df, incomplete_df, filtered_df,
                 summary, edits, labels, first>>

\* Lines 73-86: the new value is read, written into incomplete_df and into
\* the file.  An IndexError at line 81 is caught at line 87 after the
\* in-memory write, and leaves the file as it is.
EditorEdit ==
  /\ pc = "editor"
  /\ edits < MaxEdits
  /\ \E parts \in CellInputs \cup BadInputs, new_value \in NewValues :
       /\ Selects(incomplete_df, parts)
       /\ LET column == parts[1]
              row == ParseInt(parts[2])
          IN  /\ lastIn' = Input("editor", parts, <<new_value>>)
              /\ incomplete_df' = EditInMemory(incomplete_df, row, column, new_value)
              /\ file' = IF PositionExists(file, row)
                         THEN EditFile(file, row, column, new_value, labels)
                         ELSE file
  /\ edits' = edits + 1
  /\ UNCHANGED <<pc, df, complete_df, filtered_df, summary, labels, first>>

Next == Load \/ SelectRange \/ SelectNext \/ EditorQuit \/ EditorReject \/ EditorEdit

Spec == Init /\ [][Next]_vars

\* ------------------------------------------- validation, run on its own
\* validate_and_clean_data applied to a loaded table, and applied again to
\* the table it left behind (what line 102 does on every later iteration).
InitValidate == InitWith(Tables(ValRows, MaxRowsV))

ValidateAgain ==
  /\ pc = "range"
  /\ pc' = "again"
  /\ Revalidate
  /\ UNCHANGED <<file, filtered_df, summary, edits, lastIn, first>>

NextValidate == Load \/ ValidateAgain

SpecValidate == InitValidate /\ [][NextValidate]_vars

\* ------------------------------------- filter and summary, run on their own
\* The load and one pass of the menu loop up to the display, over tables with
\* several dates and categories and over ranges that start and end on them.
InitFilter == InitWith(Tables(FilterRows, MaxRowsF))

SelectRangeWide == SelectRangeFrom(FilterDateInputs)

NextFilter == Load \/ SelectRangeWide

SpecFilter == InitFilter /\ [][NextFilter]_vars

\* ------------------------------------------------------------------ claims
\* What the last input says, when it is an editor command that was followed
\* by the prompt for the new value.
IsEdit(in) == in.prompt = "editor" /\ in.value # <<>>
EditColumn(in) == in.parts[1]
EditRow(in) == ParseInt(in.parts[2])
EditValue(in) == in.value[1]

\* A cell holds the text v: as that text, or as the timestamp it denotes.
Holds(cell, v) == cell = Str(v) \/ (v \in DOMAIN DayOf /\ cell = Date(DayOf[v]))

\* The table has been loaded and validated.
Loaded == pc \in {"range", "again", "next", "editor"} \/ (pc = "exit" /\ lastIn.prompt # "file")

\* Row i of df is in complete_df (which keeps df's labels).
InComplete(i) == \E j \in RowsOf(complete_df) : complete_df[j].idx = df[i].idx

\* Row i of df is in incomplete_df (whose row j came from the row labelled labels[j]).
InIncomplete(i) ==
  \E j \in RowsOf(incomplete_df) : labels[j] = df[i].idx /\ incomplete_df[j].cells = df[i].cells

KeysPresent(cells) == cells.Date # NA /\ cells.Category # NA /\ cells.Amount # NA
SomeMissing(cells) == \E c \in DOMAIN cells : cells[c] = NA

\* No row is listed twice, and both results are in the order of df.
Increasing(seq) == \A j, k \in 1..Len(seq) : j < k => seq[j] < seq[k]
NoRepeats ==
  /\ Len(labels) = Len(incomplete_df)
  /\ Increasing(labels)
  /\ Increasing([j \in RowsOf(complete_df) |-> complete_df[j].idx])
  /\ \A j \in RowsOf(incomplete_df) : incomplete_df[j].idx = j - 1

\* C1 (as claimed): after validate_and_clean_data every row of the table is
\* in exactly one of complete and incomplete, and it is in complete iff its
\* Date, Category and Amount are all non-missing after coercion.
C1_Partition ==
  Loaded =>
    \A i \in RowsOf(df) :
      /\ InComplete(i) # InIncomplete(i)
      /\ InComplete(i) <=> KeysPresent(df[i].cells)

\* C1 (amended): every row is in at least one of complete and incomplete, once
\* in each at most; it is in complete iff its Date, Category and Amount are
\* all non-missing after coercion, and in incomplete iff any of its cells is
\* missing -- so a row whose key fields are present and whose passthrough
\* cell is missing is in both.
C1_Cover ==
  (Loaded /\ pc # "editor") =>
    /\ NoRepeats
    /\ \A i \in RowsOf(df) :
         /\ InComplete(i) \/ InIncomplete(i)
         /\ InComplete(i) <=> KeysPresent(df[i].cells)
         /\ InIncomplete(i) <=> SomeMissing(df[i].cells)

\* A validated table with a row that is in both results and a row that is in
\* incomplete only.
C1_Witness ==
  /\ pc = "range"
  /\ \E i \in RowsOf(df) : InComplete(i) /\ InIncomplete(i)
  /\ \E i \in RowsOf(df) : ~InComplete(i) /\ InIncomplete(i)

\* C2 (as claimed): an accepted editor command (Column c, Row r) with value v
\* leaves v in cell (r, c) of incomplete_df and in column c of the file row
\* that is the same record, and changes no other cell of incomplete_df and
\* no other cell of the file.
C2_EditsTheRecord ==
  [][(pc = "editor" /\ edits' = edits + 1) =>
       LET c == EditColumn(lastIn')
           r == EditRow(lastIn')
           v == EditValue(lastIn')
           src == labels[r + 1] + 1
       IN  /\ Len(incomplete_df') = Len(incomplete_df)
           /\ Holds(incomplete_df'[r + 1].cells[c], v)
           /\ \A i \in RowsOf(incomplete_df) : \A cc \in Cols :
                (i # r + 1 \/ cc # c) => incomplete_df'[i].cells[cc] = incomplete_df[i].cells[cc]
           /\ Len(file') = Len(file)
           /\ Holds(file'[src][c], v)
           /\ \A i \in 1..Len(file) : \A cc \in Cols :
                (i # src \/ cc # c) => file'[i][cc] = file[i][cc]]_vars

\* C3: filter_by_date returns exactly the rows of its table whose Date d has
\* start <= d <= end, both ends included, in their original order.
C3_FilterExact ==
  (pc = "next" /\ lastIn.parts[1] = "3") =>
    LET start == DayOf[lastIn.parts[2]]
        end == DayOf[lastIn.parts[3]]
        kept == {filtered_df[j] : j \in RowsOf(filtered_df)}
    IN  /\ \A i \in RowsOf(complete_df) :
             complete_df[i] \in kept <=>
               (start <= complete_df[i].cells.Date.d /\ complete_df[i].cells.Date.d <= end)
        /\ kept \subseteq {complete_df[i] : i \in RowsOf(complete_df)}
        /\ Increasing([j \in RowsOf(filtered_df) |-> filtered_df[j].idx])

\* A filter that kept a row dated start and a row dated end, and left a row out.
C3_Witness ==
  /\ pc = "next"
  /\ lastIn.parts[1] = "3"
  /\ DayOf[lastIn.parts[2]] < DayOf[lastIn.parts[3]]
  /\ \E j \in RowsOf(filtered_df) : filtered_df[j].cells.Date.d = DayOf[lastIn.parts[2]]
  /\ \E j \in RowsOf(filtered_df) : filtered_df[j].cells.Date.d = DayOf[lastIn.parts[3]]
  /\ Len(filtered_df) < Len(complete_df)

\* The sum of the amounts of the rows of t at the positions S, taken in no
\* particular order.
RECURSIVE SumAt(_, _)
SumAt(t, S) ==
  IF S = {} THEN 0
  ELSE LET i == CHOOSE x \in S : \A y \in S : x >= y
       IN  t[i].cells.Amount.n + SumAt(t, S \ {i})

\* C4: the summary maps each Category of the filtered table to the sum of
\* Amount over its rows, the grand total is the sum of Amount over all
\* filtered rows, and the summary is empty iff the filtered table is.
C4_Summary ==
  pc = "next" =>
    /\ DOMAIN summary = {filtered_df[i].cells.Category : i \in RowsOf(filtered_df)}
    /\ \A c \in DOMAIN summary :
         summary[c] = SumAt(filtered_df, {i \in RowsOf(filtered_df) : filtered_df[i].cells.Category = c})
    /\ GrandTotal(summary) = SumAt(filtered_df, RowsOf(filtered_df))
    /\ (DOMAIN summary = {}) <=> (filtered_df = <<>>)

\* A summary of two categories, one of them with two rows of different amounts.
C4_Witness ==
  /\ pc = "next"
  /\ Cardinality(DOMAIN summary) = 2
  /\ \E i, j \in RowsOf(filtered_df) :
       /\ i < j
       /\ filtered_df[i].cells.Category = filtered_df[j].cells.Category
       /\ filtered_df[i].cells.Amount # filtered_df[j].cells.Amount

\* An editor command that is not q and fails parsing or validation, in the
\* claim's words: not two parts, a row that is no integer, a column that is
\* not a column, a row outside the index of the incomplete table t.
FailsValidation(parts, t) ==
  /\ parts \notin {<<"q">>, <<"Q">>}
  /\ \/ Len(parts) # 2
     \/ ~IsIntText(parts[2])
     \/ parts[1] \notin Cols
     \/ ParseInt(parts[2]) \notin 0..(Len(t) - 1)

\* C5: in the editor an input other than q that fails parsing or validation
\* leaves the editor at its prompt with incomplete_df and the file unchanged,
\* and the editor is left only on q.
C5_RejectKeepsState ==
  [][pc = "editor" =>
       /\ FailsValidation(lastIn'.parts, incomplete_df) =>
            (pc' = "editor" /\ incomplete_df' = incomplete_df /\ file' = file /\ edits' = edits)
       /\ pc' # "editor" => lastIn'.parts \in {<<"q">>, <<"Q">>}]_vars

\* The editor at its prompt after an edit and then a rejected command.
C5_Witness ==
  /\ pc = "editor"
  /\ edits > 0
  /\ lastIn.prompt = "editor"
  /\ FailsValidation(lastIn.parts, incomplete_df)

\* C6: a time-range choice other than 1/2/3 and a post-summary choice other
\* than 1/2/q/Q end the program, with no further prompt and the file as it
\* was; in the editor an input that is not q never ends the program and the
\* editor prompts again.
C6_MenuFatal ==
  [][/\ pc # "exit"
     /\ (pc = "range" /\ lastIn'.parts[1] \notin {"1", "2", "3"}) =>
          (pc' = "exit" /\ file' = file)
     /\ (pc = "next" /\ lastIn'.parts[1] \notin {"1", "2", "q", "Q"}) =>
          (pc' = "exit" /\ file' = file)
     /\ (pc = "editor" /\ lastIn'.parts \notin {<<"q">>, <<"Q">>}) => pc' = "editor"]_vars

\* The program ended by an unknown post-summary choice, after edits.
C6_Witness ==
  /\ pc = "exit"
  /\ lastIn = Input("next", <<"0">>, <<>>)
  /\ edits > 0

\* C7: a second validate_and_clean_data on the table the first call coerced
\* leaves the table unchanged and returns the same complete and incomplete.
C7_Idempotent ==
  pc = "again" =>
    /\ df = first.df
    /\ complete_df = first.complete_df
    /\ incomplete_df = first.incomplete_df

\* A second validation of a table that the first one changed, with rows in
\* both results.
C7_Witness ==
  /\ pc = "again"
  /\ first.df # read_file(first.file)
  /\ complete_df # <<>>
  /\ incomplete_df # <<>>

\* C8: the table loaded at the start is never changed by an edit and never
\* reloaded: at every menu iteration complete and incomplete are what they
\* were on the first one, whatever the file holds by then.
C8_NeverReloaded ==
  /\ df = first.df
  /\ complete_df = first.complete_df
  /\ pc # "editor" => incomplete_df = first.incomplete_df

\* Back at the menu after an edit that filled a row on disk: a reload would
\* list fewer incomplete rows than the loop does.
C8_Witness ==
  /\ pc = "range"
  /\ edits > 0
  /\ Len(validate_and_clean_data(read_file(file)).incomplete_df) < Len(incomplete_df)

\* C9: an accepted command (Column c, Row r) writes v into column c of the
\* row at position r of the file as it is on disk at that moment, and
\* rewrites every other cell of that file as it was -- the edits made before
\* included.
C9_PositionalWrite ==
  [][(pc = "editor" /\ edits' = edits + 1) =>
       LET c == EditColumn(lastIn')
           r == EditRow(lastIn')
           v == EditValue(lastIn')
       IN  /\ IsEdit(lastIn')
           /\ r + 1 \in 1..Len(file)
           /\ Len(file') = Len(file)
           /\ \A i \in 1..Len(file) : \A cc \in Cols :
                file'[i][cc] = IF i = r + 1 /\ cc = c THEN Str(v) ELSE file[i][cc]]_vars

\* A second edit, of an incomplete row that is not at its reset index in the
\* file: the file holds the value at the reset index, and still holds the
\* first edit in another cell.
C9_Witness ==
  /\ pc = "editor"
  /\ edits = 2
  /\ IsEdit(lastIn)
  /\ labels[EditRow(lastIn) + 1] # EditRow(lastIn)
  /\ file[EditRow(lastIn) + 1][EditColumn(lastIn)] = Str(EditValue(lastIn))
  /\ \E i \in 1..Len(file) : \E cc \in Cols :
       /\ (i # EditRow(lastIn) + 1 \/ cc # EditColumn(lastIn))
       /\ file[i][cc] # first.file[i][cc]

\* C10: the file keeps its number of rows and its columns; the incomplete
\* table has no more rows than the file, and an accepted (Column, Row) has
\* Row in 0..k-1 (k the number of incomplete rows) and Column a column of
\* the file.
C10_FileShape ==
  Loaded =>
    /\ Len(file) = Len(first.file)
    /\ \A i \in 1..Len(file) : DOMAIN file[i] = Cols
    /\ Len(incomplete_df) <= Len(file)
    /\ (pc = "editor" /\ IsEdit(lastIn)) =>
         /\ EditRow(lastIn) \in 0..(Len(incomplete_df) - 1)
         /\ EditRow(lastIn) + 1 \in 1..Len(file)
         /\ EditColumn(lastIn) \in DOMAIN file[EditRow(lastIn) + 1]

\* Two accepted edits of a file with more rows than incomplete rows.
C10_Witness ==
  /\ pc = "editor"
  /\ edits = 2
  /\ IsEdit(lastIn)
  /\ Len(incomplete_df) < Len(file)

====
